---------------------------- MODULE Spec2Model ----------------------------
(***************************************************************************)
(* A model of ml_service/app.py: a Flask service with five stateless       *)
(* routes (health, background removal, pose detection, measurement         *)
(* extraction, body-type classification).                                  *)
(*                                                                         *)
(* Numbers.  Python floats are modelled as exact rationals [num, den] in   *)
(* lowest terms with a positive denominator, so a comparison such as       *)
(* waist / hip < 0.75 is decided exactly (binary rounding is not           *)
(* modelled).  Strings that the code edits (photo urls) are sequences of   *)
(* one-character strings; str.replace works on them as Python's does.      *)
(*                                                                         *)
(* Randomness.  Every call of random.random() returns a value of [0, 1).   *)
(* The values a handler draws are the successive outputs of a generator    *)
(* whose hidden state (seed, increment) is chosen nondeterministically per *)
(* request; outputs lie on the grid {0/Grid, ..., (Grid-1)/Grid}.          *)
(*                                                                         *)
(* Faults.  A Python exception no handler catches leaves the view          *)
(* function; Flask answers it with 500 Internal Server Error.              *)
(***************************************************************************)
EXTENDS Integers, Sequences, FiniteSets, TLC

VARIABLES pc,        \* "idle": waiting for a request; "done": a view function has returned
          route,     \* the route of the request being served ("" when idle)
          request,   \* request.json of the request being served
          response,  \* [status, body] produced for it
          draws      \* the values random.random() returned while serving it, in call order

vars == <<pc, route, request, response, draws>>

---------------------------------------------------------------------------
(* Bounds of the model *)

\* longest 'photos' list a request carries
MaxPhotos == 2
\* random.random() is sampled on the grid k / Grid, k in 0 .. Grid-1
Grid == 8
\* integer measurements sent to classification are 5*k, k in -1 .. MaxMeasureUnits
MaxMeasureUnits == 20

---------------------------------------------------------------------------
(* Exact arithmetic standing for Python's float arithmetic *)

Abs(n) == IF n < 0 THEN -n ELSE n

RECURSIVE GCD(_, _)
GCD(a, b) == IF b = 0 THEN a ELSE GCD(b, a % b)

\* the rational n / d (d # 0) in lowest terms, denominator positive
Rat(n, d) ==
    LET g == GCD(Abs(n), Abs(d))
        s == IF d < 0 THEN -1 ELSE 1
    IN  [num |-> (s * n) \div g, den |-> (s * d) \div g]

Whole(n) == Rat(n, 1)

\* a + b
RAdd(a, b) == Rat(a.num * b.den + b.num * a.den, a.den * b.den)
\* a - b
RSub(a, b) == Rat(a.num * b.den - b.num * a.den, a.den * b.den)
\* a * b
RMul(a, b) == Rat(a.num * b.num, a.den * b.den)
\* a / b, for b # 0 (Python raises ZeroDivisionError otherwise)
RDiv(a, b) == Rat(a.num * b.den, a.den * b.num)
\* a < b
RLess(a, b) == a.num * b.den < b.num * a.den
\* a <= b
RLeq(a, b) == a.num * b.den <= b.num * a.den
IsZero(a) == a.num = 0

---------------------------------------------------------------------------
(* JSON objects are functions from keys to values *)

EmptyDict == [k \in {} |-> 0]

\* dict.get(key, default)
Get(d, key, default) == IF key \in DOMAIN d THEN d[key] ELSE default

\* jsonify(body): a 200 response
Jsonify(body) == [status |-> 200, body |-> body]

\* what Flask answers when the view function raises
InternalServerError == [status |-> 500, body |-> [error |-> "Internal Server Error"]]

---------------------------------------------------------------------------
(* GET /health *)

health_view == Jsonify([status |-> "healthy", service |-> "ML Avatar Service"])

---------------------------------------------------------------------------
(* POST /background-removal *)

JPG == <<".", "j", "p", "g">>
PNG == <<".", "p", "n", "g">>
MASKED_JPG == <<"_", "m", "a", "s", "k", "e", "d">> \o JPG
MASKED_PNG == <<"_", "m", "a", "s", "k", "e", "d">> \o PNG

\* str.replace(old, new): every non-overlapping occurrence, scanning from the left
RECURSIVE Replace(_, _, _)
Replace(s, old, new) ==
    IF Len(s) < Len(old) THEN s
    ELSE IF SubSeq(s, 1, Len(old)) = old
         THEN new \o Replace(SubSeq(s, Len(old) + 1, Len(s)), old, new)
         ELSE <<Head(s)>> \o Replace(Tail(s), old, new)

\* a plausible slip: only the '.jpg' replacement is made
masked_url_jpg_only(url) == Replace(url, JPG, MASKED_JPG)

\* photo['url'].replace('.jpg', '_masked.jpg').replace('.png', '_masked.png')
masked_url(url) == Replace(Replace(url, JPG, MASKED_JPG), PNG, MASKED_PNG)

\* photo['url'] or photo['type'] raises KeyError
RaisesKeyError(photo) == ~ ("url" \in DOMAIN photo /\ "type" \in DOMAIN photo)

\* the record appended for one photo
processed_photo(photo) ==
    [url |-> masked_url(photo["url"]), type |-> photo["type"], maskQuality |-> Rat(95, 100)]

\* a plausible slip: a malformed entry is skipped and the loop goes on
RECURSIVE processed_photos_skipping(_, _)
processed_photos_skipping(photos, processed) ==
    IF photos = <<>> THEN [raised |-> FALSE, value |-> processed]
    ELSE IF RaisesKeyError(Head(photos))
         THEN processed_photos_skipping(Tail(photos), processed)
         ELSE processed_photos_skipping(Tail(photos),
                                        Append(processed, processed_photo(Head(photos))))

\* the loop 'for photo in photos': the list built so far is `processed`; the
\* first malformed entry raises and the list is lost with the frame
RECURSIVE processed_photos(_, _)
processed_photos(photos, processed) ==
    IF photos = <<>> THEN [raised |-> FALSE, value |-> processed]
    ELSE IF RaisesKeyError(Head(photos))
         THEN [raised |-> TRUE, value |-> <<>>]
         ELSE processed_photos(Tail(photos),
                               Append(processed, processed_photo(Head(photos))))

remove_background_view(data) ==
    LET photos == Get(data, "photos", <<>>)
        loop == processed_photos(photos, <<>>)
    IN  IF loop.raised THEN InternalServerError
        ELSE Jsonify([processedPhotos |-> loop.value])

\* the urls requests carry: a stem, then extensions
Stem == <<"a">>
Urls == { Stem \o JPG, Stem \o PNG,                 \* one extension
          Stem \o JPG \o PNG, Stem \o PNG \o JPG,   \* an extension inside the name
          Stem \o JPG \o Stem \o JPG,               \* the same extension twice
          Stem }                                    \* no extension
Types == {"front", "side"}

\* a photo entry: a dict with 'url' and 'type', or one lacking either
PhotoEntries ==
    { [url |-> u, type |-> t] : u \in Urls, t \in Types }
    \cup { [url |-> u] : u \in Urls }
    \cup { [type |-> t] : t \in Types }
    \cup { EmptyDict }

PhotoLists == UNION { [1..n -> PhotoEntries] : n \in 0..MaxPhotos }

BackgroundRemovalRequests == { [photos |-> l] : l \in PhotoLists } \cup { EmptyDict }

remove_background ==
    /\ pc = "idle"
    /\ \E data \in BackgroundRemovalRequests :
         /\ request' = data
         /\ response' = remove_background_view(data)
    /\ route' = "/background-removal"
    /\ draws' = <<>>
    /\ pc' = "done"

health ==
    /\ pc = "idle"
    /\ request' = EmptyDict
    /\ response' = health_view
    /\ route' = "/health"
    /\ draws' = <<>>
    /\ pc' = "done"

---------------------------------------------------------------------------
(* random.random() *)

\* the n-th value (n = 0, 1, ...) a generator in state (seed, inc) returns: a
\* value of [0, 1) on the grid
random(seed, inc, n) == Rat((seed + n * inc) % Grid, Grid)

\* the first `count` values, in call order
random_stream(seed, inc, count) == [n \in 1..count |-> random(seed, inc, n - 1)]

---------------------------------------------------------------------------
(* POST /pose-detection *)

landmark_names == <<
    "nose", "left_eye_inner", "left_eye", "left_eye_outer",
    "right_eye_inner", "right_eye", "right_eye_outer",
    "left_ear", "right_ear", "mouth_left", "mouth_right",
    "left_shoulder", "right_shoulder", "left_elbow", "right_elbow",
    "left_wrist", "right_wrist", "left_pinky", "right_pinky",
    "left_index", "right_index", "left_thumb", "right_thumb",
    "left_hip", "right_hip", "left_knee", "right_knee",
    "left_ankle", "right_ankle", "left_heel", "right_heel",
    "left_foot_index", "right_foot_index" >>

\* a plausible slip: the index is spread over the last index, not the count
point_y_over_last(i) == RAdd(RMul(RDiv(Whole(i), Whole(32)), Rat(9, 10)), Rat(5, 100))

\* (i / 33) * 0.9 + 0.05
point_y(i) == RAdd(RMul(RDiv(Whole(i), Whole(33)), Rat(9, 10)), Rat(5, 100))

\* the point appended at index i (from 0) of enumerate(landmark_names); rx, rz
\* and rc are the three values random.random() returns, in that order
point(i, name, rx, rz, rc) ==
    [ x          |-> RAdd(Rat(3, 10), RMul(rx, Rat(4, 10))),
      y          |-> point_y(i),
      z          |-> RSub(RMul(rz, Rat(1, 10)), Rat(5, 100)),
      confidence |-> RAdd(Rat(85, 100), RMul(rc, Rat(1, 10))),
      name       |-> name ]

\* the list the loop builds; r is the stream of values drawn, three a point
points(r) ==
    [ j \in 1..Len(landmark_names) |->
        point(j - 1, landmark_names[j], r[3 * j - 2], r[3 * j - 1], r[3 * j]) ]

detect_pose_view(data, r) ==
    LET photos == Get(data, "photos", <<>>)
        landmarks == [points |-> points(r), averageConfidence |-> Rat(92, 100)]
    IN  Jsonify([landmarks |-> landmarks])

\* only the number of photos is read (and logged)
PoseRequests ==
    { [photos |-> [i \in 1..n |-> [url |-> Stem \o JPG, type |-> "front"]]] : n \in 0..MaxPhotos }
    \cup { EmptyDict }

detect_pose ==
    /\ pc = "idle"
    /\ \E data \in PoseRequests, seed \in 0..(Grid - 1), inc \in 0..(Grid - 1) :
         LET r == random_stream(seed, inc, 3 * Len(landmark_names))
         IN  /\ request' = data
             /\ draws' = r
             /\ response' = detect_pose_view(data, r)
    /\ route' = "/pose-detection"
    /\ pc' = "done"

---------------------------------------------------------------------------
(* POST /measurement-extraction *)

\* the nine keys, in the order the dict literal (and the conversion loop) lists them
measurement_keys == <<
    "height", "shoulderWidth", "chestCircumference", "waistCircumference",
    "hipCircumference", "armLength", "inseam", "neckCircumference",
    "thighCircumference" >>

\* the dict literal; r[1] .. r[9] are the values random.random() returns
base_measurements(unit, r) ==
    [ height             |-> RAdd(Whole(170), RMul(r[1], Whole(20))),
      shoulderWidth      |-> RAdd(Whole(40), RMul(r[2], Whole(10))),
      chestCircumference |-> RAdd(Whole(90), RMul(r[3], Whole(15))),
      waistCircumference |-> RAdd(Whole(75), RMul(r[4], Whole(15))),
      hipCircumference   |-> RAdd(Whole(95), RMul(r[5], Whole(15))),
      armLength          |-> RAdd(Whole(55), RMul(r[6], Whole(10))),
      inseam             |-> RAdd(Whole(75), RMul(r[7], Whole(10))),
      neckCircumference  |-> RAdd(Whole(35), RMul(r[8], Whole(5))),
      thighCircumference |-> RAdd(Whole(50), RMul(r[9], Whole(10))),
      confidence         |-> Rat(89, 100),
      unit               |-> unit ]

Range(seq) == { seq[i] : i \in DOMAIN seq }

\* base_measurements[key] = base_measurements[key] / 2.54 for every key of `keys`
divide_keys(m, keys) ==
    [ k \in DOMAIN m |-> IF k \in keys THEN RDiv(m[k], Rat(254, 100)) ELSE m[k] ]

\* a plausible slip: the test on the unit is lost and every response is converted
converted_whatever_unit(m, unit) == divide_keys(m, Range(measurement_keys))

\* a plausible slip: 'inseam' is missing from the list of keys
converted_without_inseam(m, unit) ==
    IF unit = "imperial" THEN divide_keys(m, Range(measurement_keys) \ {"inseam"}) ELSE m

\* a plausible slip: 'hipCircumference' is missing from the list of keys
converted_without_hip(m, unit) ==
    IF unit = "imperial"
    THEN divide_keys(m, Range(measurement_keys) \ {"hipCircumference"}) ELSE m

\* if unit == 'imperial': the loop over the nine keys
converted(m, unit) ==
    IF unit = "imperial" THEN divide_keys(m, Range(measurement_keys)) ELSE m

extract_measurements_view(data, r) ==
    LET landmarks == Get(data, "landmarks", "None")
        unit == Get(data, "unit", "metric")
    IN  Jsonify([measurements |-> converted(base_measurements(unit, r), unit)])

MeasurementRequests ==
    { [landmarks |-> "landmarks", unit |-> u] : u \in {"metric", "imperial"} }
    \cup { [landmarks |-> "landmarks"] }
    \cup { [unit |-> u] : u \in {"metric", "imperial"} }
    \cup { EmptyDict }

extract_measurements ==
    /\ pc = "idle"
    /\ \E data \in MeasurementRequests, seed \in 0..(Grid - 1), inc \in 0..(Grid - 1) :
         LET r == random_stream(seed, inc, Len(measurement_keys))
         IN  /\ request' = data
             /\ draws' = r
             /\ response' = extract_measurements_view(data, r)
    /\ route' = "/measurement-extraction"
    /\ pc' = "done"

---------------------------------------------------------------------------
(* POST /body-type-classification *)

\* a plausible slip: the 'rectangle' test is made before the 'inverted-triangle' test
body_type_rectangle_first(waist_to_hip_ratio, shoulder_to_hip_ratio) ==
    IF RLess(waist_to_hip_ratio, Rat(75, 100)) THEN "hourglass"
    ELSE IF RLess(Rat(85, 100), waist_to_hip_ratio) THEN "rectangle"
    ELSE IF RLess(Rat(5, 10), shoulder_to_hip_ratio) THEN "inverted-triangle"
    ELSE "pear"

\* the if / elif / elif / else chain
body_type(waist_to_hip_ratio, shoulder_to_hip_ratio) ==
    IF RLess(waist_to_hip_ratio, Rat(75, 100)) THEN "hourglass"
    ELSE IF RLess(Rat(5, 10), shoulder_to_hip_ratio) THEN "inverted-triangle"
    ELSE IF RLess(Rat(85, 100), waist_to_hip_ratio) THEN "rectangle"
    ELSE "pear"

classify_body_type_view(data) ==
    IF "measurements" \notin DOMAIN data
    THEN InternalServerError        \* None.get: AttributeError
    ELSE LET measurements == data["measurements"]
             waist == Get(measurements, "waistCircumference", Whole(80))
             hip == Get(measurements, "hipCircumference", Whole(100))
             shoulder == Get(measurements, "shoulderWidth", Whole(45))
         IN  IF IsZero(hip)
             THEN InternalServerError    \* waist / hip: ZeroDivisionError
             ELSE Jsonify([ bodyType   |-> body_type(RDiv(waist, hip), RDiv(shoulder, hip)),
                            confidence |-> Rat(87, 100) ])

\* integer lengths a client sends
MeasureValues == { Whole(5 * k) : k \in (-1)..MaxMeasureUnits }

\* a measurements object: each of the three keys absent or holding a number
MeasurementObjects ==
    UNION { [keys -> MeasureValues] :
              keys \in SUBSET {"waistCircumference", "hipCircumference", "shoulderWidth"} }

ClassificationRequests ==
    { [measurements |-> m] : m \in MeasurementObjects } \cup { EmptyDict }

classify_body_type ==
    /\ pc = "idle"
    /\ \E data \in ClassificationRequests :
         /\ request' = data
         /\ response' = classify_body_type_view(data)
    /\ route' = "/body-type-classification"
    /\ draws' = <<>>
    /\ pc' = "done"

---------------------------------------------------------------------------
(* The request cycle *)

Init ==
    /\ pc = "idle"
    /\ route = ""
    /\ request = EmptyDict
    /\ response = EmptyDict
    /\ draws = <<>>

\* the response is serialised and sent; the request's objects are discarded
Respond ==
    /\ pc = "done"
    /\ pc' = "idle"
    /\ route' = ""
    /\ request' = EmptyDict
    /\ response' = EmptyDict
    /\ draws' = <<>>

Next ==
    \/ health
    \/ remove_background
    \/ detect_pose
    \/ extract_measurements
    \/ classify_body_type
    \/ Respond

Spec == Init /\ [][Next]_vars

---------------------------------------------------------------------------
(* Vocabulary of the properties *)

Served(r) == pc = "done" /\ route = r

EndsWith(s, suffix) ==
    /\ Len(suffix) <= Len(s)
    /\ SubSeq(s, Len(s) - Len(suffix) + 1, Len(s)) = suffix

\* s without its last n characters
DropLast(s, n) == SubSeq(s, 1, Len(s) - n)

WellFormed(photo) == "url" \in DOMAIN photo /\ "type" \in DOMAIN photo

RequestPhotos == Get(request, "photos", <<>>)

AllWellFormed == \A i \in DOMAIN RequestPhotos : WellFormed(RequestPhotos[i])

\* lo <= v <= hi
Within(v, lo, hi) == RLeq(lo, v) /\ RLeq(v, hi)

\* a / b < t, for b # 0, without dividing
RatioBelow(a, b, t) ==
    IF RLess(Whole(0), b) THEN RLess(a, RMul(t, b)) ELSE RLess(RMul(t, b), a)

\* a / b > t, for b # 0, without dividing
RatioAbove(a, b, t) ==
    IF RLess(Whole(0), b) THEN RLess(RMul(t, b), a) ELSE RLess(a, RMul(t, b))

BodyTypes == {"hourglass", "inverted-triangle", "rectangle", "pear"}

\* the measurements object {waistCircumference: w, hipCircumference: h, shoulderWidth: s}
Lengths(w, h, s) ==
    [waistCircumference |-> Whole(w), hipCircumference |-> Whole(h), shoulderWidth |-> Whole(s)]

\* the centimetre range of each measurement
MetricRange ==
    [ height             |-> <<170, 190>>,
      shoulderWidth      |-> <<40, 50>>,
      chestCircumference |-> <<90, 105>>,
      waistCircumference |-> <<75, 90>>,
      hipCircumference   |-> <<95, 110>>,
      armLength          |-> <<55, 65>>,
      inseam             |-> <<75, 85>>,
      neckCircumference  |-> <<35, 40>>,
      thighCircumference |-> <<50, 60>> ]

NineKeys == DOMAIN MetricRange

---------------------------------------------------------------------------
(* C1 *)

\* C1: whenever classification answers a measurements object (hip not zero,
\* absent keys defaulted to 80, 100, 45), bodyType is 'hourglass' if
\* waist/hip < 0.75, else 'inverted-triangle' if shoulder/hip > 0.5, else
\* 'rectangle' if waist/hip > 0.85, else 'pear', and confidence is 0.87;
\* (70,100,45), (90,100,60), (90,100,40), (80,100,40) give hourglass,
\* inverted-triangle, rectangle, pear.
C1_ClassificationRule ==
    (Served("/body-type-classification") /\ "measurements" \in DOMAIN request) =>
        LET m == request["measurements"]
            waist == Get(m, "waistCircumference", Whole(80))
            hip == Get(m, "hipCircumference", Whole(100))
            shoulder == Get(m, "shoulderWidth", Whole(45))
            expected ==
                IF RatioBelow(waist, hip, Rat(3, 4)) THEN "hourglass"
                ELSE IF RatioAbove(shoulder, hip, Rat(1, 2)) THEN "inverted-triangle"
                ELSE IF RatioAbove(waist, hip, Rat(17, 20)) THEN "rectangle"
                ELSE "pear"
        IN  ~ IsZero(hip) =>
              /\ response.status = 200
              /\ response.body.bodyType = expected
              /\ response.body.confidence = Rat(87, 100)
              /\ (m = Lengths(70, 100, 45) => response.body.bodyType = "hourglass")
              /\ (m = Lengths(90, 100, 60) => response.body.bodyType = "inverted-triangle")
              /\ (m = Lengths(90, 100, 40) => response.body.bodyType = "rectangle")
              /\ (m = Lengths(80, 100, 40) => response.body.bodyType = "pear")

\* (90,100,60) passes both the shoulder test and the later waist test: the earlier wins
C1_Witness ==
    /\ Served("/body-type-classification")
    /\ request = [measurements |-> Lengths(90, 100, 60)]
    /\ response.status = 200
    /\ response.body.bodyType = "inverted-triangle"

---------------------------------------------------------------------------
(* C2 *)

\* C2: for a background-removal request whose photos are all well-formed,
\* processedPhotos is as long as photos and its i-th record has the i-th
\* photo's type, maskQuality 0.95 and a url ending '_masked.jpg' ('_masked.png')
\* when the i-th url ends '.jpg' ('.png').
C2_ProcessedPhotos ==
    (Served("/background-removal") /\ AllWellFormed) =>
        /\ response.status = 200
        /\ Len(response.body.processedPhotos) = Len(RequestPhotos)
        /\ \A i \in DOMAIN RequestPhotos :
             LET in == RequestPhotos[i]
                 out == response.body.processedPhotos[i]
             IN  /\ out.type = in.type
                 /\ out.maskQuality = Rat(95, 100)
                 /\ (EndsWith(in.url, JPG) => EndsWith(out.url, MASKED_JPG))
                 /\ (EndsWith(in.url, PNG) => EndsWith(out.url, MASKED_PNG))

C2_Witness ==
    /\ Served("/background-removal")
    /\ AllWellFormed
    /\ Len(RequestPhotos) = 2
    /\ EndsWith(RequestPhotos[1].url, JPG)
    /\ EndsWith(RequestPhotos[2].url, PNG)
    /\ RequestPhotos[1].type # RequestPhotos[2].type
    /\ Len(response.body.processedPhotos) = 2

---------------------------------------------------------------------------
(* C3 *)

\* C3: a background-removal request holding a photo entry without 'url' or
\* without 'type' is answered with a 4xx status.
C3_MalformedIsClientError ==
    (Served("/background-removal") /\ ~ AllWellFormed) =>
        response.status \in 400..499

---------------------------------------------------------------------------
(* C4 *)

\* C4: a pose-detection response has exactly 33 points carrying the landmark
\* names in order; point i (from 0) has y = (i/33)*0.9 + 0.05, so y increases
\* strictly; x is in [0.3, 0.7], z in [-0.05, 0.05], confidence in
\* [0.85, 0.95]; averageConfidence is 0.92.
C4_PoseShape ==
    Served("/pose-detection") =>
        LET pts == response.body.landmarks.points
        IN  /\ response.status = 200
            /\ Len(pts) = 33
            /\ Cardinality({ pts[j].name : j \in 1..33 }) = 33
            /\ pts[1].name = "nose"
            /\ pts[33].name = "right_foot_index"
            /\ \A j \in 1..33 :
                 /\ pts[j].name = landmark_names[j]
                 /\ RMul(pts[j].y, Whole(660)) = Whole(18 * (j - 1) + 33)
                 /\ Within(pts[j].x, Rat(3, 10), Rat(7, 10))
                 /\ Within(pts[j].z, Rat(-5, 100), Rat(5, 100))
                 /\ Within(pts[j].confidence, Rat(85, 100), Rat(95, 100))
            /\ \A j \in 1..32 : RLess(pts[j].y, pts[j + 1].y)
            /\ response.body.landmarks.averageConfidence = Rat(92, 100)

\* no photos at all, points that differ in x, and per-point confidences all
\* below 0.92, so that their mean is not the reported 0.92
C4_Witness ==
    /\ Served("/pose-detection")
    /\ RequestPhotos = <<>>
    /\ LET pts == response.body.landmarks.points
       IN  /\ pts[1].x # pts[2].x
           /\ \A j \in 1..33 : RLess(pts[j].confidence, Rat(92, 100))
           /\ response.body.landmarks.averageConfidence = Rat(92, 100)

---------------------------------------------------------------------------
(* C5 *)

\* C5: with unit 'metric' or no unit, each of the nine measurements lies in
\* its centimetre range, confidence is 0.89 and the response's unit is 'metric'.
C5_MetricRanges ==
    (Served("/measurement-extraction") /\ Get(request, "unit", "metric") = "metric") =>
        LET m == response.body.measurements
        IN  /\ response.status = 200
            /\ \A k \in NineKeys :
                 Within(m[k], Whole(MetricRange[k][1]), Whole(MetricRange[k][2]))
            /\ m.confidence = Rat(89, 100)
            /\ m.unit = "metric"

\* no unit given, and a height strictly inside its range
C5_Witness ==
    /\ Served("/measurement-extraction")
    /\ "unit" \notin DOMAIN request
    /\ response.body.measurements.unit = "metric"
    /\ RLess(Whole(170), response.body.measurements.height)

---------------------------------------------------------------------------
(* C6 *)

\* C6: with unit 'imperial', each of the nine fields is the value drawn from
\* its centimetre range divided by 2.54 (once), so it differs from that
\* value; confidence stays 0.89 and the response's unit is 'imperial'.
C6_ImperialConversion ==
    (Served("/measurement-extraction") /\ Get(request, "unit", "metric") = "imperial") =>
        LET m == response.body.measurements
        IN  /\ response.status = 200
            /\ \A j \in 1..9 :
                 LET k == measurement_keys[j]
                     lo == MetricRange[k][1]
                     hi == MetricRange[k][2]
                     metric == RAdd(Whole(lo), RMul(draws[j], Whole(hi - lo)))
                 IN  /\ RMul(m[k], Rat(254, 100)) = metric
                     /\ m[k] # metric
            /\ m.confidence = Rat(89, 100)
            /\ m.unit = "imperial"

C6_Witness ==
    /\ Served("/measurement-extraction")
    /\ Get(request, "unit", "metric") = "imperial"
    /\ draws[1] # draws[2]
    /\ RLess(response.body.measurements.height, Whole(75))

---------------------------------------------------------------------------
(* C7 *)

\* C7: whenever a classification request carries a measurements object,
\* whatever numbers it holds, the response is a success naming one of the
\* four body types.
C7_NoErrorPath ==
    (Served("/body-type-classification") /\ "measurements" \in DOMAIN request) =>
        /\ response.status = 200
        /\ response.body.bodyType \in BodyTypes

---------------------------------------------------------------------------
(* C8 *)

---------------------------------------------------------------------------
(* C9 *)

\* C9: for a url ending '.jpg' ('.png') the output url is the input url with
\* that trailing extension replaced by '_masked.jpg' ('_masked.png') and
\* every character before it unchanged.
C9_OnlySuffixReplaced ==
    (Served("/background-removal") /\ AllWellFormed) =>
        \A i \in DOMAIN RequestPhotos :
            LET url == RequestPhotos[i].url
                out == response.body.processedPhotos[i].url
            IN  /\ (EndsWith(url, JPG) => out = DropLast(url, Len(JPG)) \o MASKED_JPG)
                /\ (EndsWith(url, PNG) => out = DropLast(url, Len(PNG)) \o MASKED_PNG)

---------------------------------------------------------------------------
(* C10 *)

\* C10: for one draw of the nine measurements, classification gives the same
\* bodyType for the metric set and for the imperial set.
C10_UnitInvariant ==
    Served("/measurement-extraction") =>
        LET m == response.body.measurements
            other == IF m.unit = "imperial" THEN "metric" ELSE "imperial"
            twin == extract_measurements_view([unit |-> other], draws).body.measurements
            mine == classify_body_type_view([measurements |-> m])
            theirs == classify_body_type_view([measurements |-> twin])
        IN  /\ twin.unit # m.unit
            /\ mine.status = 200
            /\ theirs.status = 200
            /\ mine.body.bodyType = theirs.body.bodyType

\* an imperial set that classifies by the waist/hip ratio alone
C10_Witness ==
    /\ Served("/measurement-extraction")
    /\ response.body.measurements.unit = "imperial"
    /\ classify_body_type_view([measurements |-> response.body.measurements]).body.bodyType
         = "rectangle"

=============================================================================
